---- MODULE Spec2Model ----
(***************************************************************************)
(* Model of rust.bf (src/src/lib.rs): Program::parse, the translator from  *)
(* source text to a coalesced, jump-resolved instruction sequence, and     *)
(* Program::run, the interpreter over a growable tape.                     *)
(*                                                                         *)
(* Representation choices, all value-preserving:                           *)
(*  - the source text is held run-length encoded, a sequence of runs       *)
(*    [c |-> character, n |-> repetitions], so that texts of 30000 and     *)
(*    more characters (the only way a single Ptr can cross the end of the  *)
(*    tape) are inputs of the model;                                       *)
(*  - the tape Vec<u8> is held as its length and its nonzero cells;        *)
(*  - indices (pc, ptr, jump targets, error positions) are 0-based as in   *)
(*    the code, At(s, i) reads element i of a 0-indexed sequence.          *)
(* Integer widths: Rust caps a str at isize::MAX bytes, so the sum c + d   *)
(* of line 38 and the negation of line 87 cannot overflow; usize::MAX      *)
(* exceeds the integers of the model checker, see USIZE_MAX.               *)
(***************************************************************************)
EXTENDS Integers, Sequences, FiniteSets, TLC

INITIAL_CAPACITY == 30000

\* Bounds of the model.
MaxRuns == 3        \* runs in an enumerated source text
MaxInput == 2       \* items the input stream yields before end-of-stream
MaxSteps == 10      \* instructions interpreted in one run
MaxRefLen == 6      \* longest text that is also executed command by command

\* usize::MAX as far as the model can count: every pointer value the model
\* reaches is below it, as it is below 2^64 - 1 in the program.
USIZE_MAX == 2147483647

VARIABLES source, input, program, mem, ptr, pc, writer, output, consumed,
          status, steps, ref

vars == <<source, input, program, mem, ptr, pc, writer, output, consumed,
          status, steps, ref>>

At(s, i) == s[i + 1]

-----------------------------------------------------------------------------
(* enum Instr *)

Add(x) == [op |-> "Add", x |-> x]
Ptr(x) == [op |-> "Ptr", x |-> x]
LoopBegin(x) == [op |-> "LoopBegin", x |-> x]
LoopEnd(x) == [op |-> "LoopEnd", x |-> x]
Out == [op |-> "Out", x |-> 0]
In == [op |-> "In", x |-> 0]

-----------------------------------------------------------------------------
(* Program::parse *)

CommandChars == {"+", "-", ">", "<", "[", "]", ".", ","}

\* 0u8.wrapping_sub(1)
WrappingSub(a, b) == (a - b) % 256

WrappingAdd(a, b) == (a + b) % 256

\* FilterMapChar with the sign of `<` lost
FilterMapChar_LeftAsRight(c) ==
    CASE c = "+" -> Add(1)
      [] c = "-" -> Add(WrappingSub(0, 1))
      [] c = ">" -> Ptr(1)
      [] c = "<" -> Ptr(1)
      [] c = "[" -> LoopBegin(0)
      [] c = "]" -> LoopEnd(0)
      [] c = "." -> Out
      [] c = "," -> In

\* the closure of filter_map, for one character
FilterMapChar(c) ==
    CASE c = "+" -> Add(1)
      [] c = "-" -> Add(WrappingSub(0, 1))
      [] c = ">" -> Ptr(1)
      [] c = "<" -> Ptr(-1)
      [] c = "[" -> LoopBegin(0)
      [] c = "]" -> LoopEnd(0)
      [] c = "." -> Out
      [] c = "," -> In

IsCommandRun(r) == r.c \in CommandChars

\* FilterMap turning a non-command character into the no-op Add(0) instead
\* of dropping it
FilterMap_NoOp(src) ==
    [k \in 1..Len(src) |->
        [ins |-> IF IsCommandRun(src[k]) THEN FilterMapChar(src[k].c) ELSE Add(0),
         n |-> src[k].n]]

\* source.chars().filter_map(..) over the run-length encoded text: the
\* runs of non-command characters are dropped, a run of n command
\* characters is n copies of its instruction.
FilterMap(src) ==
    LET kept == SelectSeq(src, IsCommandRun)
    IN  [k \in 1..Len(kept) |-> [ins |-> FilterMapChar(kept[k].c), n |-> kept[k].n]]

\* CoalesceFn adding the deltas of two Add without wrapping
CoalesceFn_NoWrap(a, b) ==
    IF a.op = "Add" /\ b.op = "Add"
    THEN [ok |-> TRUE, v |-> Add(a.x + b.x)]
    ELSE IF a.op = "Ptr" /\ b.op = "Ptr"
    THEN [ok |-> TRUE, v |-> Ptr(a.x + b.x)]
    ELSE [ok |-> FALSE, v |-> a]

\* the closure of coalesce: Ok(merged) or Err((a, b))
CoalesceFn(a, b) ==
    IF a.op = "Add" /\ b.op = "Add"
    THEN [ok |-> TRUE, v |-> Add(WrappingAdd(a.x, b.x))]
    ELSE IF a.op = "Ptr" /\ b.op = "Ptr"
    THEN [ok |-> TRUE, v |-> Ptr(a.x + b.x)]
    ELSE [ok |-> FALSE, v |-> a]

\* CoalesceFn folded over n copies of b, starting from a, when a and b merge
\* (the merged item is of the same kind, so every copy merges):
\* n wrapping additions of d are one addition of n * d modulo 256.
CoalesceTimes(a, b, n) ==
    IF a.op = "Add" THEN Add((a.x + n * b.x) % 256) ELSE Ptr(a.x + n * b.x)

Copies(ins, n) == [k \in 1..n |-> ins]

\* itertools' coalesce fed the n copies of one run: st.last is the item held
\* back (st.has says whether there is one), st.acc the items already emitted.
CoalesceRun(st, ins, n) ==
    LET first == IF ~st.has
                 THEN [has |-> TRUE, last |-> ins, acc |-> st.acc]
                 ELSE IF CoalesceFn(st.last, ins).ok
                      THEN [has |-> TRUE, last |-> CoalesceFn(st.last, ins).v,
                            acc |-> st.acc]
                      ELSE [has |-> TRUE, last |-> ins,
                            acc |-> Append(st.acc, st.last)]
    IN  IF n = 1 THEN first
        ELSE IF CoalesceFn(first.last, ins).ok
             THEN [first EXCEPT !.last = CoalesceTimes(first.last, ins, n - 1)]
             ELSE [first EXCEPT !.acc = first.acc \o Copies(ins, n - 1)]

RECURSIVE CoalesceFrom(_, _, _)
CoalesceFrom(items, k, st) ==
    IF k > Len(items)
    THEN IF st.has THEN Append(st.acc, st.last) ELSE st.acc
    ELSE CoalesceFrom(items, k + 1, CoalesceRun(st, items[k].ins, items[k].n))

\* .coalesce(..).collect()
Coalesce(items) ==
    CoalesceFrom(items, 1, [has |-> FALSE, last |-> Out, acc |-> <<>>])

NoError == [kind |-> "none", n |-> 0]

\* anyhow!("Unmatched closing bracket (`}`) at position {}", i)
UnmatchedClosing(i) ==
    [ok |-> FALSE, instrs |-> <<>>, err |-> [kind |-> "UnmatchedClosing", n |-> i]]

\* Finish without the check of the pending opening brackets
Finish_NoCheck(prog, jump_stack) ==
    [ok |-> TRUE, instrs |-> prog, err |-> NoError]

\* let len = jump_stack.len(); if len != 0 { bail!(..) } Ok(Self { instrs })
Finish(prog, jump_stack) ==
    LET len == Len(jump_stack)
    IN  IF len # 0
        THEN [ok |-> FALSE, instrs |-> <<>>,
              err |-> [kind |-> "UnmatchedOpening", n |-> len]]
        ELSE [ok |-> TRUE, instrs |-> prog, err |-> NoError]

\* Link with the opening bracket jumping to the index after its partner
Link_PastPartner(prog, i, other) ==
    [prog EXCEPT ![i + 1] = LoopEnd(other), ![other + 1] = LoopBegin(i + 1)]

\* program[i] = LoopEnd(other); program[other] = LoopBegin(i)
Link(prog, i, other) ==
    [prog EXCEPT ![i + 1] = LoopEnd(other), ![other + 1] = LoopBegin(i)]

\* jump_stack.pop(): the element popped and the stack left
Pop(jump_stack) ==
    [other |-> jump_stack[Len(jump_stack)],
     rest |-> SubSeq(jump_stack, 1, Len(jump_stack) - 1)]

\* the loop `for i in 0..program.len()` with its jump_stack, from index i on
RECURSIVE ResolveFrom(_, _, _)
ResolveFrom(prog, i, jump_stack) ==
    IF i >= Len(prog)
    THEN Finish(prog, jump_stack)
    ELSE IF At(prog, i).op = "LoopBegin"
    THEN ResolveFrom(prog, i + 1, Append(jump_stack, i))
    ELSE IF At(prog, i).op = "LoopEnd"
    THEN IF Len(jump_stack) = 0
         THEN UnmatchedClosing(i)
         ELSE ResolveFrom(Link(prog, i, Pop(jump_stack).other), i + 1,
                          Pop(jump_stack).rest)
    ELSE ResolveFrom(prog, i + 1, jump_stack)

Resolve(prog) == ResolveFrom(prog, 0, <<>>)

parse(src) == Resolve(Coalesce(FilterMap(src)))

NoProgram == [ok |-> FALSE, instrs |-> <<>>, err |-> NoError]

-----------------------------------------------------------------------------
(* The tape: vec![0u8; INITIAL_CAPACITY], as its length and nonzero cells *)

NewTape == [len |-> INITIAL_CAPACITY, nz |-> [k \in {} |-> 0]]

\* mem[i], for i < mem.len()
Cell(m, i) == IF i \in DOMAIN m.nz THEN m.nz[i] ELSE 0

\* mem[i] = v, for i < mem.len()
Store(m, i, v) ==
    [m EXCEPT !.nz = [k \in IF v = 0 THEN DOMAIN m.nz \ {i}
                                      ELSE DOMAIN m.nz \cup {i}
                            |-> IF k = i THEN v ELSE m.nz[k]]]

\* the bounds check of Vec's index operator
InBounds(m, i) == i < m.len

\* ResizeByOne replacing the tape by a fresh one that is one cell longer
ResizeByOne_Fresh(m) == [len |-> m.len + 1, nz |-> [k \in {} |-> 0]]

\* mem.resize(mem.len() + 1, 0)
ResizeByOne(m) == [m EXCEPT !.len = m.len + 1]

-----------------------------------------------------------------------------
(* Program::run: one machine is the record of run's locals *)

\* the locals at line 72..76
NewMachine ==
    [mem |-> NewTape, ptr |-> 0, pc |-> 0, writer |-> <<>>, output |-> <<>>,
     consumed |-> 0, status |-> "running", steps |-> 0]

\* Stop discarding what the BufWriter still holds
Stop_DropsBuffer(s, why) == [s EXCEPT !.status = why, !.writer = <<>>]

\* run returns or unwinds: the BufWriter is dropped, which flushes it
Stop(s, why) ==
    [s EXCEPT !.status = why, !.output = s.output \o s.writer, !.writer = <<>>]

\* the index operator panics (index out of bounds)
Panic(s) == Stop(s, "panic")

\* Advance staying on the instruction just interpreted
Advance_NoIncrement(s) == [s EXCEPT !.steps = s.steps + 1]

\* `pc += 1` at line 113
Advance(s) == [s EXCEPT !.pc = s.pc + 1, !.steps = s.steps + 1]

\* Instr::Add(x) => mem[ptr] = mem[ptr].wrapping_add(x)
ExecAdd(s, x) ==
    IF ~InBounds(s.mem, s.ptr) THEN Panic(s)
    ELSE Advance([s EXCEPT !.mem = Store(s.mem, s.ptr,
                                         WrappingAdd(Cell(s.mem, s.ptr), x))])

\* if ptr >= mem.len() { mem.resize(mem.len() + 1, 0); }
Grow(s) ==
    IF s.ptr >= s.mem.len THEN [s EXCEPT !.mem = ResizeByOne(s.mem)] ELSE s

\* ExecPtr without the checked subtraction
ExecPtr_Unchecked(s, x) == Advance(Grow([s EXCEPT !.ptr = s.ptr + x]))

\* Instr::Ptr(x)
ExecPtr(s, x) ==
    IF x >= 0
    THEN IF s.ptr + x > USIZE_MAX
         THEN Stop(s, "PointerOverflow")
         ELSE Advance(Grow([s EXCEPT !.ptr = s.ptr + x]))
    ELSE IF s.ptr - (-x) < 0
         THEN Stop(s, "PointerUnderflow")
         ELSE Advance(Grow([s EXCEPT !.ptr = s.ptr - (-x)]))

\* ExecLoopBegin jumping to the index after the matching `]`
ExecLoopBegin_PastPartner(s, x) ==
    IF ~InBounds(s.mem, s.ptr) THEN Panic(s)
    ELSE IF Cell(s.mem, s.ptr) = 0
         THEN Advance([s EXCEPT !.pc = x + 1])
         ELSE Advance(s)

\* ExecLoopBegin entering the body whatever the cell holds
ExecLoopBegin_NeverSkips(s, x) ==
    IF ~InBounds(s.mem, s.ptr) THEN Panic(s) ELSE Advance(s)

\* Instr::LoopBegin(x)
ExecLoopBegin(s, x) ==
    IF ~InBounds(s.mem, s.ptr) THEN Panic(s)
    ELSE IF Cell(s.mem, s.ptr) = 0
         THEN Advance([s EXCEPT !.pc = x])
         ELSE Advance(s)

\* Instr::LoopEnd(x)
ExecLoopEnd(s, x) ==
    IF ~InBounds(s.mem, s.ptr) THEN Panic(s)
    ELSE IF Cell(s.mem, s.ptr) # 0
         THEN Advance([s EXCEPT !.pc = x])
         ELSE Advance(s)

\* Utf8 passing the cell through as one raw byte
Utf8_RawByte(v) == <<v>>

\* `mem[ptr] as char` formatted with "{}": the UTF-8 encoding of U+0000..U+00FF
Utf8(v) == IF v < 128 THEN <<v>> ELSE <<192 + (v \div 64), 128 + (v % 64)>>

\* Instr::Out
ExecOut(s) ==
    IF ~InBounds(s.mem, s.ptr) THEN Panic(s)
    ELSE Advance([s EXCEPT !.writer = s.writer \o Utf8(Cell(s.mem, s.ptr))])

\* An item of the input stream: Some(Ok(v)) or Some(Err(_)); past the last
\* item input.next() is None.
ReadOk(v) == [ok |-> TRUE, v |-> v]
ReadErr == [ok |-> FALSE, v |-> 0]

\* ExecIn leaving the cell as it is at end-of-stream
ExecIn_EofKeepsCell(s, inp) ==
    IF s.consumed < Len(inp)
    THEN LET item == inp[s.consumed + 1]
             t == [s EXCEPT !.consumed = s.consumed + 1]
         IN  IF ~item.ok THEN Stop(t, "InputReadError")
             ELSE IF ~InBounds(t.mem, t.ptr) THEN Panic(t)
             ELSE Advance([t EXCEPT !.mem = Store(t.mem, t.ptr, item.v)])
    ELSE IF ~InBounds(s.mem, s.ptr) THEN Panic(s)
         ELSE Advance(s)

\* Instr::In
ExecIn(s, inp) ==
    IF s.consumed < Len(inp)
    THEN LET item == inp[s.consumed + 1]
             t == [s EXCEPT !.consumed = s.consumed + 1]
         IN  IF ~item.ok THEN Stop(t, "InputReadError")
             ELSE IF ~InBounds(t.mem, t.ptr) THEN Panic(t)
             ELSE Advance([t EXCEPT !.mem = Store(t.mem, t.ptr, item.v)])
    ELSE IF ~InBounds(s.mem, s.ptr) THEN Panic(s)
         ELSE Advance([s EXCEPT !.mem = Store(s.mem, s.ptr, 0)])

\* one pass of `while pc < self.instrs.len() { match self.instrs[pc] .. }`,
\* or the Ok(()) after it
Exec(instrs, inp, s) ==
    IF ~(s.pc < Len(instrs)) THEN Stop(s, "Ok")
    ELSE LET i == At(instrs, s.pc)
         IN  CASE i.op = "Add" -> ExecAdd(s, i.x)
               [] i.op = "Ptr" -> ExecPtr(s, i.x)
               [] i.op = "LoopBegin" -> ExecLoopBegin(s, i.x)
               [] i.op = "LoopEnd" -> ExecLoopEnd(s, i.x)
               [] i.op = "Out" -> ExecOut(s)
               [] i.op = "In" -> ExecIn(s, inp)

-----------------------------------------------------------------------------
(* Inputs of the model *)

Run(c, n) == [c |-> c, n |-> n]

\* single characters (x stands for every non-command character), doubled
\* brackets, runs of + and - long enough to wrap a cell, runs of > and < as
\* long as the tape
Runs ==
    {Run(c, 1) : c \in CommandChars \cup {"x"}}
        \cup {Run(c, 2) : c \in {"[", "]"}}
        \cup {Run(c, 255) : c \in {"+", "-"}}
        \cup {Run(c, INITIAL_CAPACITY) : c \in {">", "<"}}

RECURSIVE SeqsUpTo(_, _)
SeqsUpTo(S, n) ==
    IF n = 0 THEN {<<>>}
    ELSE LET shorter == SeqsUpTo(S, n - 1)
         IN  shorter \cup {Append(s, e) : s \in {t \in shorter : Len(t) = n - 1}, e \in S}

\* "++>>[--<<]" of tests::parse_3
Parse3Text ==
    <<Run("+", 2), Run(">", 2), Run("[", 1), Run("-", 2), Run("<", 2), Run("]", 1)>>

\* ",[.,]" of tests::cat
CatText ==
    <<Run(",", 1), Run("[", 1), Run(".", 1), Run(",", 1), Run("]", 1)>>

Sources == SeqsUpTo(Runs, MaxRuns) \cup {Parse3Text, CatText}

ReadItems == {ReadOk(0), ReadOk(1), ReadErr}

Inputs == SeqsUpTo(ReadItems, MaxInput)

\* The input streams a text is run on: a text without `,` never reads, its
\* runs are the same on every stream and the empty stream stands for all.
InputsFor(src) ==
    IF \E k \in 1..Len(src) : src[k].c = "," THEN Inputs ELSE {<<>>}

\* number of characters of a run-length encoded text
RECURSIVE TextLen(_)
TextLen(src) == IF src = <<>> THEN 0 ELSE Head(src).n + TextLen(Tail(src))

-----------------------------------------------------------------------------
(* The state machine: parse, then run instruction by instruction; a text   *)
(* of at most MaxRefLen characters is then also run without coalescing,    *)
(* on the same input (ref).                                                *)

Machine ==
    [mem |-> mem, ptr |-> ptr, pc |-> pc, writer |-> writer, output |-> output,
     consumed |-> consumed, status |-> status, steps |-> steps]

SetMachine(s) ==
    /\ mem' = s.mem
    /\ ptr' = s.ptr
    /\ pc' = s.pc
    /\ writer' = s.writer
    /\ output' = s.output
    /\ consumed' = s.consumed
    /\ status' = s.status
    /\ steps' = s.steps

RefOff == [NewMachine EXCEPT !.status = "off"] @@ [instrs |-> <<>>]

Init ==
    /\ source \in Sources
    /\ input \in InputsFor(source)
    /\ program = NoProgram
    /\ mem = NewTape
    /\ ptr = 0
    /\ pc = 0
    /\ writer = <<>>
    /\ output = <<>>
    /\ consumed = 0
    /\ status = "unparsed"
    /\ steps = 0
    /\ ref = RefOff

\* Program::parse(&source), then the first lines of run
Parse ==
    /\ status = "unparsed"
    /\ program' = parse(source)
    /\ status' = IF program'.ok THEN "running" ELSE "SyntaxError"
    /\ UNCHANGED <<source, input, mem, ptr, pc, writer, output, consumed, steps, ref>>

Fetch(op) ==
    /\ status = "running"
    /\ steps < MaxSteps
    /\ pc < Len(program.instrs)
    /\ At(program.instrs, pc).op = op

RunAdd ==
    /\ Fetch("Add")
    /\ SetMachine(ExecAdd(Machine, At(program.instrs, pc).x))
    /\ UNCHANGED <<source, input, program, ref>>

RunPtr ==
    /\ Fetch("Ptr")
    /\ SetMachine(ExecPtr(Machine, At(program.instrs, pc).x))
    /\ UNCHANGED <<source, input, program, ref>>

RunLoopBegin ==
    /\ Fetch("LoopBegin")
    /\ SetMachine(ExecLoopBegin(Machine, At(program.instrs, pc).x))
    /\ UNCHANGED <<source, input, program, ref>>

RunLoopEnd ==
    /\ Fetch("LoopEnd")
    /\ SetMachine(ExecLoopEnd(Machine, At(program.instrs, pc).x))
    /\ UNCHANGED <<source, input, program, ref>>

RunOut ==
    /\ Fetch("Out")
    /\ SetMachine(ExecOut(Machine))
    /\ UNCHANGED <<source, input, program, ref>>

RunIn ==
    /\ Fetch("In")
    /\ SetMachine(ExecIn(Machine, input))
    /\ UNCHANGED <<source, input, program, ref>>

\* the loop condition fails: Ok(())
RunReturn ==
    /\ status = "running"
    /\ ~(pc < Len(program.instrs))
    /\ SetMachine(Stop(Machine, "Ok"))
    /\ UNCHANGED <<source, input, program, ref>>

\* one instruction is interpreted, or run returns
RunStep ==
    RunAdd \/ RunPtr \/ RunLoopBegin \/ RunLoopEnd \/ RunOut \/ RunIn \/ RunReturn

Stopped(st) == st \in {"Ok", "PointerUnderflow", "PointerOverflow", "InputReadError", "panic"}

\* one copy of the instruction for every character of the text
RECURSIVE Flatten(_)
Flatten(items) ==
    IF items = <<>> THEN <<>>
    ELSE Copies(Head(items).ins, Head(items).n) \o Flatten(Tail(items))

\* the translation without the coalesce adapter
ParseUnmerged(src) == Resolve(Flatten(FilterMap(src)))

RefStart ==
    /\ Stopped(status)
    /\ ref.status = "off"
    /\ TextLen(source) <= MaxRefLen
    /\ ref' = NewMachine @@ [instrs |-> ParseUnmerged(source).instrs]
    /\ UNCHANGED <<source, input, program, mem, ptr, pc, writer, output, consumed, status, steps>>

RefStep ==
    /\ ref.status = "running"
    /\ ref.steps < MaxSteps
    /\ ref' = Exec(ref.instrs, input, [f \in DOMAIN NewMachine |-> ref[f]]) @@ [instrs |-> ref.instrs]
    /\ UNCHANGED <<source, input, program, mem, ptr, pc, writer, output, consumed, status, steps>>

Next ==
    \/ Parse
    \/ RunAdd
    \/ RunPtr
    \/ RunLoopBegin
    \/ RunLoopEnd
    \/ RunOut
    \/ RunIn
    \/ RunReturn
    \/ RefStart
    \/ RefStep

Spec == Init /\ [][Next]_vars

\* run is one sequential loop: while it can interpret an instruction or
\* return, it does
FairSpec == Spec /\ WF_vars(RunStep)

-----------------------------------------------------------------------------
(* Properties.  The texts are measured here character by character,        *)
(* independently of parse.                                                 *)

Parsed == status # "unparsed"

\* number of occurrences of the character c in a text
RECURSIVE Count(_, _)
Count(src, c) ==
    IF src = <<>> THEN 0
    ELSE (IF Head(src).c = c THEN Head(src).n ELSE 0) + Count(Tail(src), c)

OnlyChars(src, S) == \A k \in 1..Len(src) : src[k].c \in S

\* Scan of the brackets of a text from run k on, with depth brackets open
\* and pos command characters passed: the position, among the command
\* characters, of the first `]` met with no `[` open, or -1 if there is none.
RECURSIVE ScanClose(_, _, _, _)
ScanClose(src, k, depth, pos) ==
    IF k > Len(src) THEN -1
    ELSE LET r == src[k]
         IN  IF r.c \notin CommandChars THEN ScanClose(src, k + 1, depth, pos)
             ELSE IF r.c = "[" THEN ScanClose(src, k + 1, depth + r.n, pos + r.n)
             ELSE IF r.c = "]"
                  THEN IF depth < r.n THEN pos + depth
                       ELSE ScanClose(src, k + 1, depth - r.n, pos + r.n)
             ELSE ScanClose(src, k + 1, depth, pos + r.n)

FirstUnmatchedClose(src) == ScanClose(src, 1, 0, 0)

\* the number of `[` left without a `]`, for a text without unmatched `]`
PendingOpen(src) == Count(src, "[") - Count(src, "]")

Balanced(src) == FirstUnmatchedClose(src) = -1 /\ PendingOpen(src) = 0

\* C1: a run of the coalesced Program and the command-by-command run of the
\* same text on the same input stop with the same outcome and the same
\* output.
C1_CoalescingPreservesBehaviour ==
    (Stopped(status) /\ Stopped(ref.status))
        => (ref.status = status /\ ref.output = output)

\* C2: whenever an instruction is about to be interpreted, the data pointer
\* is addressable: ptr < mem.len().
C2_PointerAddressable ==
    (status = "running" /\ pc < Len(program.instrs)) => ptr < mem.len

\* C3: a run stops only by returning Ok at pc = instruction count or by one
\* of PointerUnderflow, PointerOverflow, InputReadError; there is no other
\* abnormal stop.
C3_OnlyDeclaredStops ==
    /\ status \in {"unparsed", "SyntaxError", "running", "Ok",
                   "PointerUnderflow", "PointerOverflow", "InputReadError"}
    /\ status = "Ok" => pc = Len(program.instrs)

BracketsResolved(instrs) ==
    LET Idx == 0..(Len(instrs) - 1)
        Begins == {i \in Idx : At(instrs, i).op = "LoopBegin"}
        Ends == {j \in Idx : At(instrs, j).op = "LoopEnd"}
    IN  /\ \A i \in Begins :
              LET j == At(instrs, i).x
              IN  j \in Idx /\ i < j /\ At(instrs, j) = LoopEnd(i)
        /\ \A j \in Ends :
              /\ At(instrs, j).x \in Idx
              /\ Cardinality({i \in Begins : At(instrs, i).x = j}) = 1
              /\ At(instrs, At(instrs, j).x) = LoopBegin(j)
        \* stack discipline: a pair opened inside another closes inside it
        /\ \A i \in Begins : \A k \in Begins :
              (i < k /\ k < At(instrs, i).x) => At(instrs, k).x < At(instrs, i).x

C5_ClosingPositionInFilteredStream ==
    (Parsed /\ FirstUnmatchedClose(source) >= 0) =>
        /\ ~program.ok
        /\ program.err = [kind |-> "UnmatchedClosing", n |-> FirstUnmatchedClose(source)]

\* C6: parse returns a Program exactly when the brackets of the text are
\* balanced, and with no unmatched `]` and N > 0 `[` left open it fails with
\* an unmatched-opening error of count N.
C6_ProgramIffBalanced ==
    Parsed =>
        /\ program.ok <=> Balanced(source)
        /\ (FirstUnmatchedClose(source) = -1 /\ PendingOpen(source) > 0) =>
               program.err = [kind |-> "UnmatchedOpening", n |-> PendingOpen(source)]

C6_Witness ==
    /\ Parsed
    /\ source = <<Run("[", 2), Run("]", 1), Run("[", 1)>>
    /\ program.err = [kind |-> "UnmatchedOpening", n |-> 2]

\* C7: the data pointer is never negative; a Ptr that would take it below 0
\* stops the run with PointerUnderflow; and after that stop nothing of the
\* run changes any more (no instruction, no output, no input).
C7_UnderflowStopsRun ==
    /\ [](ptr >= 0)
    /\ [][(Fetch("Ptr") /\ ptr + At(program.instrs, pc).x < 0)
            => (status' = "PointerUnderflow" /\ ptr' = ptr /\ mem' = mem)]_vars
    /\ [][status = "PointerUnderflow"
            => UNCHANGED <<mem, ptr, pc, writer, output, consumed, status, steps>>]_vars

C7_Witness ==
    /\ status = "PointerUnderflow"
    /\ ptr = 1
    /\ At(program.instrs, pc) = Ptr(-INITIAL_CAPACITY)

\* C8: an Input executed with the input stream exhausted stores zero in the
\* cell at the pointer and the run goes on to the next instruction.
C8_EndOfInputStoresZero ==
    [][(Fetch("In") /\ consumed >= Len(input))
         => (status' = "running" /\ pc' = pc + 1 /\ ptr' = ptr
             /\ InBounds(mem', ptr) /\ Cell(mem', ptr) = 0)]_vars

\* C9 as stated: every text of only `+` and `-` parses to the single
\* instruction Add((number of `+` - number of `-`) mod 256).
C9_SingleAdd_Original ==
    (Parsed /\ OnlyChars(source, {"+", "-"})) =>
        /\ program.ok
        /\ program.instrs = <<Add((Count(source, "+") - Count(source, "-")) % 256)>>

\* C9, amended: every non-empty text of only `+` and `-` parses to the single
\* instruction Add((number of `+` - number of `-`) mod 256).
C9_SingleAdd ==
    (Parsed /\ source # <<>> /\ OnlyChars(source, {"+", "-"})) =>
        /\ program.ok
        /\ program.instrs = <<Add((Count(source, "+") - Count(source, "-")) % 256)>>

C9_Witness ==
    /\ Parsed
    /\ source = <<Run("-", 1), Run("-", 1), Run("-", 1)>>
    /\ program.instrs = <<Add(253)>>

\* C10 as stated: every text of only `>` and `<` parses to the single
\* instruction Ptr(number of `>` - number of `<`).
C10_SingleMove_Original ==
    (Parsed /\ OnlyChars(source, {">", "<"})) =>
        /\ program.ok
        /\ program.instrs = <<Ptr(Count(source, ">") - Count(source, "<"))>>

\* C10, amended: every non-empty text of only `>` and `<` parses to the
\* single instruction Ptr(number of `>` - number of `<`).
C10_SingleMove ==
    (Parsed /\ source # <<>> /\ OnlyChars(source, {">", "<"})) =>
        /\ program.ok
        /\ program.instrs = <<Ptr(Count(source, ">") - Count(source, "<"))>>

C10_Witness ==
    /\ Parsed
    /\ source = <<Run(">", 1), Run("<", INITIAL_CAPACITY), Run(">", 1)>>
    /\ program.instrs = <<Ptr(2 - INITIAL_CAPACITY)>>

ReadsDoNotFail(inp) == \A k \in 1..Len(inp) : inp[k].ok

\* the bytes of an input up to, not including, its first zero byte
RECURSIVE BeforeFirstZero(_)
BeforeFirstZero(inp) ==
    IF inp = <<>> \/ Head(inp).v = 0 THEN <<>>
    ELSE <<Head(inp).v>> \o BeforeFirstZero(Tail(inp))

\* the code points (cell values) a stream of one- and two-byte UTF-8
\* sequences encodes
RECURSIVE CodePoints(_)
CodePoints(bytes) ==
    IF bytes = <<>> THEN <<>>
    ELSE IF bytes[1] < 128 THEN <<bytes[1]>> \o CodePoints(Tail(bytes))
    ELSE <<(bytes[1] - 192) * 64 + (bytes[2] - 128)>> \o CodePoints(Tail(Tail(bytes)))

\* C11: on an input whose reads succeed, the copy loop ",[.,]" never stops
\* with an error, is never stuck, interprets at most 2 + 3k instructions
\* where k is the number of input bytes before the first zero byte, and when
\* it has returned Ok the cell values it emitted are exactly those k bytes.
C11_CatCopiesInput ==
    (source = CatText /\ ReadsDoNotFail(input)) =>
        /\ status \in {"unparsed", "running", "Ok"}
        /\ steps <= 2 + 3 * Len(BeforeFirstZero(input))
        /\ (status = "running" /\ steps < MaxSteps) => ENABLED RunStep
        /\ status = "Ok" => (writer = <<>> /\ CodePoints(output) = BeforeFirstZero(input))

C11_Witness ==
    /\ source = CatText
    /\ input = <<ReadOk(1), ReadOk(1)>>
    /\ status = "Ok"
    /\ output = <<1, 1>>

\* everything the Out instructions have emitted so far, delivered or buffered
Emitted == output \o writer

C13_OutputEncodesCodePoint ==
    [][Fetch("Out") =>
         /\ mem' = mem
         /\ ptr' = ptr
         /\ InBounds(mem, ptr) =>
              LET v == Cell(mem, ptr)
                  old == Len(Emitted)
                  new == SubSeq(Emitted', old + 1, Len(Emitted'))
              IN  /\ SubSeq(Emitted', 1, old) = Emitted
                  /\ v < 128 => new = <<v>>
                  /\ v >= 128 =>
                       /\ Len(new) = 2
                       /\ new[1] \in 192..223
                       /\ new[2] \in 128..191
                       /\ (new[1] - 192) * 64 + (new[2] - 128) = v]_vars

C13_Witness ==
    /\ source = <<Run("-", 1), Run(".", 1)>>
    /\ status = "Ok"
    /\ Cell(mem, ptr) = 255
    /\ output = <<195, 191>>

\* a text without its non-command characters
RECURSIVE StripNonCommands(_)
StripNonCommands(src) ==
    IF src = <<>> THEN <<>>
    ELSE IF Head(src).c \in {"+", "-", ">", "<", "[", "]", ".", ","}
         THEN <<Head(src)>> \o StripNonCommands(Tail(src))
         ELSE StripNonCommands(Tail(src))

\* C14: the result of parse, Program or error, is the result of parse on the
\* text with its non-command characters removed; in particular `>x>` is
\* the single instruction Ptr(2).
C14_NonCommandsDropped ==
    /\ Parsed => program = parse(StripNonCommands(source))
    /\ (Parsed /\ source = <<Run(">", 1), Run("x", 1), Run(">", 1)>>)
           => program.instrs = <<Ptr(2)>>

C14_Witness ==
    /\ Parsed
    /\ source = <<Run("+", 1), Run("x", 1), Run("+", 1)>>
    /\ program.instrs = <<Add(2)>>

\* C16: before the first instruction the tape is 30000 zero cells; its
\* length never decreases; it changes only in a step that interprets a Ptr,
\* and then every cell already present keeps its value and the cells added
\* at the end are zero.
C16_TapeOnlyGrows ==
    /\ [](steps = 0 => (mem.len = 30000 /\ DOMAIN mem.nz = {}))
    /\ [](\A i \in DOMAIN mem.nz : i < mem.len)
    /\ [][/\ mem'.len >= mem.len
          /\ mem'.len # mem.len => (Fetch("Ptr") /\ mem'.nz = mem.nz)]_vars

C16_Witness ==
    /\ source = <<Run("+", 1), Run(">", INITIAL_CAPACITY)>>
    /\ mem.len = 30001
    /\ Cell(mem, 0) = 1

\* brackets opened minus brackets closed among the instructions a..b
Opened(instrs, a, b) ==
    Cardinality({k \in a..b : At(instrs, k).op = "LoopBegin"})
        - Cardinality({k \in a..b : At(instrs, k).op = "LoopEnd"})

\* the LoopEnd that closes the LoopBegin at i, and the LoopBegin that the
\* LoopEnd at j closes, found by counting brackets
PartnerEnd(instrs, i) ==
    CHOOSE j \in i..(Len(instrs) - 1) :
        /\ Opened(instrs, i, j) = 0
        /\ \A k \in i..(j - 1) : Opened(instrs, i, k) > 0

PartnerBegin(instrs, j) ==
    CHOOSE i \in 0..j :
        /\ Opened(instrs, i, j) = 0
        /\ \A k \in (i + 1)..j : Opened(instrs, k, j) < 0

\* C17: LoopBegin at i with partner j continues at j + 1 on a zero cell and
\* at i + 1 otherwise; LoopEnd at j with partner i continues at i + 1 on a
\* nonzero cell and at j + 1 otherwise; neither changes the tape or the
\* pointer.
C17_LoopControl ==
    /\ [][(Fetch("LoopBegin") \/ Fetch("LoopEnd")) => (mem' = mem /\ ptr' = ptr)]_vars
    /\ [][(Fetch("LoopBegin") /\ InBounds(mem, ptr)) =>
            /\ status' = "running"
            /\ pc' = IF Cell(mem, ptr) = 0
                     THEN PartnerEnd(program.instrs, pc) + 1
                     ELSE pc + 1]_vars
    /\ [][(Fetch("LoopEnd") /\ InBounds(mem, ptr)) =>
            /\ status' = "running"
            /\ pc' = IF Cell(mem, ptr) # 0
                     THEN PartnerBegin(program.instrs, pc) + 1
                     ELSE pc + 1]_vars

C17_Witness ==
    /\ source = <<Run("+", 1), Run("[", 2), Run("]", 2)>>
    /\ status = "running"
    /\ steps = 5
    /\ pc = 3

\* the cells other than the one at the pointer, the pointer and the length
\* of the tape are left as they are
OnlyCellAtPointerChanges ==
    /\ ptr' = ptr
    /\ mem'.len = mem.len
    /\ \A i \in (DOMAIN mem.nz \cup DOMAIN mem'.nz) \ {ptr} : Cell(mem', i) = Cell(mem, i)

\* C18: every cell holds a value in 0..255; an Add(x) never fails and leaves
\* (cell + x) mod 256 in the cell at the pointer; Add and In change nothing
\* of the tape and pointer but that cell.
C18_AddWrapsAndFrames ==
    /\ [](\A i \in DOMAIN mem.nz : mem.nz[i] \in 0..255)
    /\ [][Fetch("Add") =>
            /\ status' = "running"
            /\ InBounds(mem', ptr)
            /\ Cell(mem', ptr) = (Cell(mem, ptr) + At(program.instrs, pc).x) % 256
            /\ OnlyCellAtPointerChanges]_vars
    /\ [][Fetch("In") => OnlyCellAtPointerChanges]_vars

BracketFree ==
    /\ Parsed
    /\ program.ok
    /\ \A k \in 1..Len(program.instrs) :
          program.instrs[k].op \notin {"LoopBegin", "LoopEnd"}

\* C20: a run of a Program without brackets on an input whose reads succeed
\* interprets the instructions in index order, each at most once (pc is the
\* number of instructions interpreted, and each step stops the run or moves
\* pc on by one), interprets at most instruction-count of them, and stops.
C20_StraightLineTerminates ==
    /\ []((BracketFree /\ ReadsDoNotFail(input)) =>
            (pc = steps /\ steps <= Len(program.instrs)))
    /\ [][(BracketFree /\ ReadsDoNotFail(input) /\ status = "running") =>
            (status' # "running" \/ (pc' = pc + 1 /\ steps' = steps + 1))]_vars
    /\ (BracketFree /\ ReadsDoNotFail(input)) ~> Stopped(status)

C20_Witness ==
    /\ source = <<Run("+", 1), Run(",", 1), Run(".", 1)>>
    /\ input = <<ReadOk(1)>>
    /\ status = "Ok"
    /\ steps = 3
    /\ pc = 3

====
